---- MODULE Spec2Model ----
(***************************************************************************)
(* Match lifecycle engine of backend/app.py: queue, match creation, draft, *)
(* bets, two-sided result consensus, settlement with snapshot, revert,     *)
(* admin cancel and admin override.                                        *)
(*                                                                         *)
(* Every handler runs on its own database session and is modelled as one   *)
(* action; what a handler has committed before it raises stays committed.  *)
(* Scores are kept in quarter points (1.0 = 4), which is exact for the     *)
(* default configuration (points 1.0 / 0.0, bonuses 0.25, 0.5, 1.0).       *)
(* Timestamps are kept as "is set" flags; None is 0 for integers.          *)
(*                                                                         *)
(* users .. active_champions are the committed rows of the database.       *)
(* sessions holds the requests that are being served part-way: what each   *)
(* has read and changed in its own database session and not yet committed. *)
(* A request served as a whole leaves sessions alone.                      *)
(***************************************************************************)
EXTENDS Integers, Sequences, FiniteSets, TLC

VARIABLES users, queue, matches, bets, champ_stats, active_champions, overrides, last,
          sessions

vars == <<users, queue, matches, bets, champ_stats, active_champions, overrides, last,
          sessions>>

(* ------------------------------ bounds -------------------------------- *)
NumPlayers == 7
MaxMatches == 2
MaxHistory == 3
MaxOverrides == 1
MaxStreak == 9

Players == 1 .. NumPlayers
MatchIds == 1 .. MaxMatches
None == 0
NoChamp == ""

(* Bodies of POST /match/create that the admin sends. *)
CreateInputs ==
    { <<1, 2, 3, 4, 5, 6>>,
      <<1, 2, 3, 4, 5>>,
      <<2, 2, 3, 4, 5, 6>> }

(* Outcomes of random.shuffle on a six element list, as index orders. *)
Shuffles == { <<1, 2, 3, 4, 5, 6>>, <<6, 2, 4, 1, 5, 3>> }

(* The active pool of the configuration, cut to one champion. *)
ChampionPools == { {"c1"} }

(* winner_team values a caller may send (any int passes the schema). *)
WinnerInputs == {1, 2, 3}

(* Players that send reports (7 is in no roster of CreateInputs). *)
Reporters == {2, 5, 7}

(* ----------------------------- configuration -------------------------- *)
points_win == 4
points_loss == 0
streak_bonus == (3 :> 1) @@ (6 :> 2) @@ (9 :> 4)
BrokenStreakMin == 3

(* ------------------------------ helpers ------------------------------- *)
Max(a, b) == IF a >= b THEN a ELSE b

Range(s) == { s[i] : i \in DOMAIN s }

(* list.index(x): first position of x *)
IndexOf(s, x) == CHOOSE i \in DOMAIN s : s[i] = x /\ \A j \in 1 .. (i - 1) : s[j] # x

(* dict.get(k): the value, or None *)
Get(d, k) == IF k \in DOMAIN d THEN d[k] ELSE None

(* picks.get(uid): the champion, or the falsy "no pick" *)
GetPick(picks, uid) == IF uid \in DOMAIN picks THEN picks[uid] ELSE NoChamp

Put(d, k, v) == (k :> v) @@ d

Count(s, x) == Cardinality({ i \in DOMAIN s : s[i] = x })

ZeroUser ==
    [ score |-> 0, wins |-> 0, losses |-> 0, played |-> 0, current_streak |-> 0,
      max_streak |-> 0, streaks_broken |-> 0, correct_bets |-> 0 ]

ZeroChampStat == [ played |-> 0, wins |-> 0, streaks_broken |-> 0 ]

NoDeltas == [ users |-> << >>, champions |-> << >> ]

(* The last request and its response: the operation, the match id it      *)
(* addressed or created, and the response (the detail of the               *)
(* HTTPException for errors). The caller and the side are not kept.        *)
Resp(op, m, u, w, resp) == [ op |-> op, m |-> m, resp |-> resp ]

(* ------------------------ is_user_in_active_match --------------------- *)
is_user_in_active_match(ms, uid) ==
    \E i \in DOMAIN ms :
        /\ ms[i].status \in {"draft", "in_progress"}
        /\ (uid \in Range(ms[i].team1) \/ uid \in Range(ms[i].team2))

(* ------------------------ get_or_create_champ_stat -------------------- *)
get_or_create_champ_stat(cs, uid, champion) ==
    IF <<uid, champion>> \in DOMAIN cs THEN cs ELSE Put(cs, <<uid, champion>>, ZeroChampStat)

(* ------------------- _compute_streak_bonus_per_winner ----------------- *)
thresholds == DOMAIN streak_bonus

(* A bonus that pays the highest threshold reached only. *)
BonusOfHighest(streak) ==
    LET hit == { th \in thresholds : streak >= th }
    IN IF hit = {} THEN 0
       ELSE streak_bonus[CHOOSE th \in hit : \A x \in hit : x <= th]

BonusOf(streak) ==
    LET hit == { th \in thresholds : streak >= th }
        S[T \in SUBSET hit] ==
            IF T = {} THEN 0
            ELSE LET th == CHOOSE x \in T : TRUE IN streak_bonus[th] + S[T \ {th}]
    IN S[hit]

RECURSIVE compute_streak_bonus_per_winner(_, _)
compute_streak_bonus_per_winner(us, losers) ==
    IF losers = << >> THEN 0
    ELSE BonusOf(us[Head(losers)].current_streak)
         + compute_streak_bonus_per_winner(us, Tail(losers))

(* -------------------- _apply_finalize_and_snapshot -------------------- *)
(* broken_count_by_winner: one credit per streaked loser entry and per    *)
(* occurrence of the winner in the winners list.                          *)
broken_count_by_winner(us, winners, losers) ==
    LET streaked == Cardinality({ i \in DOMAIN losers :
                                     us[losers[i]].current_streak >= BrokenStreakMin })
    IN [ w \in Range(winners) |-> streaked * Count(winners, w) ]

(* One iteration of the winners loop. st = [users, cs, du, dc]. *)
(* A winners loop iteration that leaves max_streak as it is. *)
WinnerStepKeepMax(st, uid, gain, broken, picks) ==
    LET u == st.users[uid]
        streak_new == u.current_streak + 1
        nu == [ u EXCEPT !.wins = @ + 1, !.played = @ + 1,
                         !.current_streak = streak_new,
                         !.score = @ + gain,
                         !.streaks_broken = @ + Get(broken, uid) ]
        d == [ score_delta |-> gain, wins_delta |-> 1, losses_delta |-> 0,
               played_delta |-> 1, streak_old |-> u.current_streak,
               streak_new |-> streak_new, correct_bets_delta |-> 0 ]
        champ == GetPick(picks, uid)
        cs0 == get_or_create_champ_stat(st.cs, uid, champ)
    IN [ users |-> [ st.users EXCEPT ![uid] = nu ],
         du |-> Put(st.du, uid, d),
         cs |-> IF champ = NoChamp THEN st.cs
                ELSE [ cs0 EXCEPT ![<<uid, champ>>] =
                         [ @ EXCEPT !.played = @ + 1, !.wins = @ + 1,
                                    !.streaks_broken = @ + Get(broken, uid) ] ],
         dc |-> IF champ = NoChamp THEN st.dc
                ELSE Append(st.dc, [ user_id |-> uid, champion |-> champ,
                                     played_delta |-> 1, wins_delta |-> 1,
                                     streaks_broken_delta |-> Get(broken, uid) ]) ]

WinnerStep(st, uid, gain, broken, picks) ==
    LET u == st.users[uid]
        streak_new == u.current_streak + 1
        nu == [ u EXCEPT !.wins = @ + 1, !.played = @ + 1,
                         !.current_streak = streak_new,
                         !.max_streak = Max(@, streak_new),
                         !.score = @ + gain,
                         !.streaks_broken = @ + Get(broken, uid) ]
        d == [ score_delta |-> gain, wins_delta |-> 1, losses_delta |-> 0,
               played_delta |-> 1, streak_old |-> u.current_streak,
               streak_new |-> streak_new, correct_bets_delta |-> 0 ]
        champ == GetPick(picks, uid)
        cs0 == get_or_create_champ_stat(st.cs, uid, champ)
    IN [ users |-> [ st.users EXCEPT ![uid] = nu ],
         du |-> Put(st.du, uid, d),
         cs |-> IF champ = NoChamp THEN st.cs
                ELSE [ cs0 EXCEPT ![<<uid, champ>>] =
                         [ @ EXCEPT !.played = @ + 1, !.wins = @ + 1,
                                    !.streaks_broken = @ + Get(broken, uid) ] ],
         dc |-> IF champ = NoChamp THEN st.dc
                ELSE Append(st.dc, [ user_id |-> uid, champion |-> champ,
                                     played_delta |-> 1, wins_delta |-> 1,
                                     streaks_broken_delta |-> Get(broken, uid) ]) ]

(* A losers loop iteration that forgets to end the loser's streak. *)
LoserStepKeepStreak(st, uid, picks) ==
    LET u == st.users[uid]
        nu == [ u EXCEPT !.losses = @ + 1, !.played = @ + 1,
                         !.score = @ + points_loss ]
        d == [ score_delta |-> points_loss, wins_delta |-> 0, losses_delta |-> 1,
               played_delta |-> 1, streak_old |-> u.current_streak,
               streak_new |-> 0, correct_bets_delta |-> 0 ]
        champ == GetPick(picks, uid)
        cs0 == get_or_create_champ_stat(st.cs, uid, champ)
    IN [ users |-> [ st.users EXCEPT ![uid] = nu ],
         du |-> Put(st.du, uid, d),
         cs |-> IF champ = NoChamp THEN st.cs
                ELSE [ cs0 EXCEPT ![<<uid, champ>>] = [ @ EXCEPT !.played = @ + 1 ] ],
         dc |-> IF champ = NoChamp THEN st.dc
                ELSE Append(st.dc, [ user_id |-> uid, champion |-> champ,
                                     played_delta |-> 1, wins_delta |-> 0,
                                     streaks_broken_delta |-> 0 ]) ]

(* One iteration of the losers loop. *)
LoserStep(st, uid, picks) ==
    LET u == st.users[uid]
        nu == [ u EXCEPT !.losses = @ + 1, !.played = @ + 1,
                         !.score = @ + points_loss, !.current_streak = 0 ]
        d == [ score_delta |-> points_loss, wins_delta |-> 0, losses_delta |-> 1,
               played_delta |-> 1, streak_old |-> u.current_streak,
               streak_new |-> 0, correct_bets_delta |-> 0 ]
        champ == GetPick(picks, uid)
        cs0 == get_or_create_champ_stat(st.cs, uid, champ)
    IN [ users |-> [ st.users EXCEPT ![uid] = nu ],
         du |-> Put(st.du, uid, d),
         cs |-> IF champ = NoChamp THEN st.cs
                ELSE [ cs0 EXCEPT ![<<uid, champ>>] = [ @ EXCEPT !.played = @ + 1 ] ],
         dc |-> IF champ = NoChamp THEN st.dc
                ELSE Append(st.dc, [ user_id |-> uid, champion |-> champ,
                                     played_delta |-> 1, wins_delta |-> 0,
                                     streaks_broken_delta |-> 0 ]) ]

RECURSIVE WinnersLoop(_, _, _, _, _)
WinnersLoop(st, ws, gain, broken, picks) ==
    IF ws = << >> THEN st
    ELSE WinnersLoop(WinnerStep(st, Head(ws), gain, broken, picks),
                     Tail(ws), gain, broken, picks)

RECURSIVE LosersLoop(_, _, _)
LosersLoop(st, ls, picks) ==
    IF ls = << >> THEN st
    ELSE LosersLoop(LoserStep(st, Head(ls), picks), Tail(ls), picks)

(* A bets loop that credits every bet on the match, whatever its side. *)
BetsLoopAnySide(st, bs, mid, winner_team) ==
    LET right == { b.user_id : b \in { x \in bs : x.match_id = mid } }
        nd(uid) ==
            IF uid \in DOMAIN st.du
            THEN [ st.du[uid] EXCEPT !.correct_bets_delta = @ + 1 ]
            ELSE [ score_delta |-> 0, wins_delta |-> 0, losses_delta |-> 0,
                   played_delta |-> 0,
                   streak_old |-> st.users[uid].current_streak,
                   streak_new |-> st.users[uid].current_streak,
                   correct_bets_delta |-> 1 ]
    IN [ st EXCEPT
           !.users = [ p \in DOMAIN st.users |->
                         IF p \in right
                         THEN [ st.users[p] EXCEPT !.correct_bets = @ + 1 ]
                         ELSE st.users[p] ],
           !.du = [ p \in (DOMAIN st.du) \cup right |->
                         IF p \in right THEN nd(p) ELSE st.du[p] ] ]

(* The bets loop: at most one bet per (match, user), so order is immaterial. *)
BetsLoop(st, bs, mid, winner_team) ==
    LET right == { b.user_id : b \in { x \in bs : x.match_id = mid /\ x.team = winner_team } }
        nd(uid) ==
            IF uid \in DOMAIN st.du
            THEN [ st.du[uid] EXCEPT !.correct_bets_delta = @ + 1 ]
            ELSE [ score_delta |-> 0, wins_delta |-> 0, losses_delta |-> 0,
                   played_delta |-> 0,
                   streak_old |-> st.users[uid].current_streak,
                   streak_new |-> st.users[uid].current_streak,
                   correct_bets_delta |-> 1 ]
    IN [ st EXCEPT
           !.users = [ p \in DOMAIN st.users |->
                         IF p \in right
                         THEN [ st.users[p] EXCEPT !.correct_bets = @ + 1 ]
                         ELSE st.users[p] ],
           !.du = [ p \in (DOMAIN st.du) \cup right |->
                         IF p \in right THEN nd(p) ELSE st.du[p] ] ]

(* db = [users, matches, champ_stats, bets]. The body of the function     *)
(* after its guards: bonus, winners, losers, bets, snapshot, finished.    *)
settle(db, mid, winner_team) ==
    LET m == db.matches[mid]
        winners == IF winner_team = 1 THEN m.team1 ELSE m.team2
        losers  == IF winner_team = 1 THEN m.team2 ELSE m.team1
        bonus_for_each_winner == compute_streak_bonus_per_winner(db.users, losers)
        broken == broken_count_by_winner(db.users, winners, losers)
        st0 == [ users |-> db.users, cs |-> db.champ_stats,
                 du |-> << >>, dc |-> << >> ]
        st1 == WinnersLoop(st0, winners, points_win + bonus_for_each_winner,
                           broken, m.picks)
        st2 == LosersLoop(st1, losers, m.picks)
        st3 == BetsLoop(st2, db.bets, mid, winner_team)
        nm == [ m EXCEPT !.status = "finished", !.winner_team = winner_team,
                         !.finished_at = TRUE,
                         !.result_deltas = [ users |-> st3.du, champions |-> st3.dc ] ]
    IN [ db EXCEPT !.users = st3.users, !.champ_stats = st3.cs,
                   !.matches = [ @ EXCEPT ![mid] = nm ] ]

(* A finalize that lacks the "already finished" return. *)
apply_finalize_again(db, mid, winner_team) ==
    IF mid \notin DOMAIN db.matches
    THEN [ db |-> db, resp |-> "match_not_found" ]
    ELSE IF winner_team \notin {1, 2}
    THEN [ db |-> db, resp |-> "invalid_winner_team" ]
    ELSE [ db |-> settle(db, mid, winner_team), resp |-> "ok" ]

(* The result is the database and the response. *)
apply_finalize_and_snapshot(db, mid, winner_team) ==
    IF mid \notin DOMAIN db.matches
    THEN [ db |-> db, resp |-> "match_not_found" ]
    ELSE IF db.matches[mid].status = "finished"
    THEN [ db |-> db, resp |-> "ok" ]
    ELSE IF winner_team \notin {1, 2}
    THEN [ db |-> db, resp |-> "invalid_winner_team" ]
    ELSE [ db |-> settle(db, mid, winner_team), resp |-> "ok" ]

(* --------------------------- _revert_snapshot ------------------------- *)
(* A revert that leaves current_streak as it finds it. *)
RevertUserKeepStreak(u, d) ==
    [ u EXCEPT !.score = @ - d.score_delta,
               !.wins = @ - d.wins_delta,
               !.losses = @ - d.losses_delta,
               !.played = @ - d.played_delta,
               !.correct_bets = IF d.correct_bets_delta # 0
                                THEN Max(0, @ - d.correct_bets_delta) ELSE @ ]

RevertUser(u, d) ==
    [ u EXCEPT !.score = @ - d.score_delta,
               !.wins = @ - d.wins_delta,
               !.losses = @ - d.losses_delta,
               !.played = @ - d.played_delta,
               !.current_streak = d.streak_old,
               !.correct_bets = IF d.correct_bets_delta # 0
                                THEN Max(0, @ - d.correct_bets_delta) ELSE @ ]

RECURSIVE RevertChamps(_, _)
RevertChamps(cs, champs) ==
    IF champs = << >> THEN cs
    ELSE LET c == Head(champs)
             k == <<c.user_id, c.champion>>
             cs0 == get_or_create_champ_stat(cs, c.user_id, c.champion)
         IN RevertChamps(
              [ cs0 EXCEPT ![k] =
                  [ played |-> Max(0, @.played - c.played_delta),
                    wins |-> Max(0, @.wins - c.wins_delta),
                    streaks_broken |-> Max(0, @.streaks_broken - c.streaks_broken_delta) ] ],
              Tail(champs))

(* A revert that clears the snapshot and leaves the winner set. *)
revert_snapshot_keeps_winner(db, mid) ==
    LET m == db.matches[mid]
        deltas == m.result_deltas
        nm == [ m EXCEPT !.finished_at = FALSE, !.result_deltas = NoDeltas ]
    IN [ db EXCEPT
           !.users = [ p \in DOMAIN db.users |->
                         IF p \in DOMAIN deltas.users
                         THEN RevertUser(db.users[p], deltas.users[p])
                         ELSE db.users[p] ],
           !.champ_stats = RevertChamps(db.champ_stats, deltas.champions),
           !.matches = [ @ EXCEPT ![mid] = nm ] ]

revert_snapshot(db, mid) ==
    LET m == db.matches[mid]
        deltas == m.result_deltas
        nm == [ m EXCEPT !.winner_team = None, !.finished_at = FALSE,
                         !.result_deltas = NoDeltas ]
    IN [ db EXCEPT
           !.users = [ p \in DOMAIN db.users |->
                         IF p \in DOMAIN deltas.users
                         THEN RevertUser(db.users[p], deltas.users[p])
                         ELSE db.users[p] ],
           !.champ_stats = RevertChamps(db.champ_stats, deltas.champions),
           !.matches = [ @ EXCEPT ![mid] = nm ] ]

DB == [ users |-> users, matches |-> matches, champ_stats |-> champ_stats, bets |-> bets ]

SetDB(db) ==
    /\ users' = db.users
    /\ matches' = db.matches
    /\ champ_stats' = db.champ_stats
    /\ bets' = db.bets

(* ------------------------- create_match_internal ---------------------- *)
Shuffled(user_ids, perm) == [ i \in 1 .. 6 |-> user_ids[perm[i]] ]

NewMatch(us, ids) ==
    [ status |-> "draft", started_at |-> FALSE, bet_deadline |-> FALSE,
      draft_round |-> 0, finished_at |-> FALSE,
      team1 |-> SubSeq(ids, 1, 3), team2 |-> SubSeq(ids, 4, 6),
      picks |-> << >>, winner_team |-> None,
      streaked_player_ids |-> SelectSeq(ids, LAMBDA uid : us[uid].current_streak >= BrokenStreakMin),
      t1_report |-> None, t2_report |-> None,
      t1_reporter |-> None, t2_reporter |-> None,
      result_deltas |-> NoDeltas ]

(* The error it raises, or "ok". *)
create_check(ms, user_ids) ==
    IF Len(user_ids) # 6 THEN "need_6_players"
    ELSE IF \E i \in DOMAIN user_ids : is_user_in_active_match(ms, user_ids[i])
    THEN "user_in_other_match"
    ELSE "ok"

create_match_internal(ms, us, user_ids, perm) ==
    Append(ms, NewMatch(us, Shuffled(user_ids, perm)))

(* POST /match/create *)
match_create(user_ids, perm) ==
    LET chk == create_check(matches, user_ids) IN
    /\ chk = "ok" => Len(matches) < MaxMatches
    /\ matches' = IF chk = "ok"
                  THEN create_match_internal(matches, users, user_ids, perm)
                  ELSE matches
    /\ last' = Resp("create", IF chk = "ok" THEN Len(matches) + 1 ELSE None, None, None, chk)
    /\ UNCHANGED <<users, queue, bets, champ_stats, active_champions, overrides>>

(* ------------------------------- queue -------------------------------- *)
(* A validation that forgets the ticket lookup. *)
validate_not_in_match(q, ms, uid) ==
    IF is_user_in_active_match(ms, uid) THEN "already_in_match" ELSE "ok"

(* validate_not_in_match_or_queue *)
validate_not_in_match_or_queue(q, ms, uid) ==
    IF uid \in Range(q) THEN "already_in_queue"
    ELSE IF is_user_in_active_match(ms, uid) THEN "already_in_match"
    ELSE "ok"

(* POST /queue/enter *)
queue_enter(uid, perm) ==
    LET v == validate_not_in_match_or_queue(queue, matches, uid)
        rows == Append(queue, uid)
        ids == SubSeq(rows, 1, 6)
        rest == SubSeq(rows, 7, Len(rows))
        chk == create_check(matches, ids)
    IN
    IF v # "ok"
    THEN /\ last' = Resp("enter", None, uid, None, v)
         /\ UNCHANGED <<users, queue, matches, bets, champ_stats, active_champions, overrides>>
    ELSE IF Len(rows) >= 6
    THEN /\ chk = "ok" => Len(matches) < MaxMatches
         /\ queue' = rest
         /\ matches' = IF chk = "ok"
                       THEN create_match_internal(matches, users, ids, perm)
                       ELSE matches
         /\ last' = Resp("enter", IF chk = "ok" THEN Len(matches) + 1 ELSE None, uid, None, chk)
         /\ UNCHANGED <<users, bets, champ_stats, active_champions, overrides>>
    ELSE /\ queue' = rows
         /\ last' = Resp("enter", None, uid, None, "ok")
         /\ UNCHANGED <<users, matches, bets, champ_stats, active_champions, overrides>>

(* POST /queue/leave *)
queue_leave(uid) ==
    /\ queue' = SelectSeq(queue, LAMBDA x : x # uid)
    /\ last' = Resp("leave", None, uid, None, "ok")
    /\ UNCHANGED <<users, matches, bets, champ_stats, active_champions, overrides>>

(* ------------------- POST /match/finalize (a report) ------------------ *)
(* A report handler that settles as soon as both slots are filled, with   *)
(* the claim of team 1, without comparing the two.                        *)
match_finalize_any_two(mid, uid, winner_team) ==
    IF mid \notin DOMAIN matches
    THEN /\ last' = Resp("report", mid, uid, winner_team, "match_not_found")
         /\ UNCHANGED <<users, queue, matches, bets, champ_stats, active_champions, overrides>>
    ELSE LET m == matches[mid]
             is_t1 == uid \in Range(m.team1)
             is_t2 == uid \in Range(m.team2)
             m1 == IF is_t1 THEN [ m EXCEPT !.t1_report = winner_team, !.t1_reporter = uid ]
                   ELSE m
             m2 == IF is_t2 THEN [ m1 EXCEPT !.t2_report = winner_team, !.t2_reporter = uid ]
                   ELSE m1
             db1 == [ DB EXCEPT !.matches = [ @ EXCEPT ![mid] = m2 ] ]
             fin == apply_finalize_and_snapshot(db1, mid, m2.t1_report)
         IN
         IF m.status \notin {"in_progress", "finished"}
         THEN /\ last' = Resp("report", mid, uid, winner_team, "invalid_status")
              /\ UNCHANGED <<users, queue, matches, bets, champ_stats, active_champions, overrides>>
         ELSE IF winner_team \notin {1, 2}
         THEN /\ last' = Resp("report", mid, uid, winner_team, "invalid_winner_team")
              /\ UNCHANGED <<users, queue, matches, bets, champ_stats, active_champions, overrides>>
         ELSE IF ~(is_t1 \/ is_t2)
         THEN /\ last' = Resp("report", mid, uid, winner_team, "not_in_match")
              /\ UNCHANGED <<users, queue, matches, bets, champ_stats, active_champions, overrides>>
         ELSE IF m2.t1_report # None /\ m2.t2_report # None
         THEN IF TRUE
              THEN /\ SetDB(fin.db)
                   /\ last' = Resp("report", mid, uid, winner_team, fin.resp)
                   /\ UNCHANGED <<queue, active_champions, overrides>>
              ELSE /\ SetDB(db1)
                   /\ last' = Resp("report", mid, uid, winner_team, "mismatch")
                   /\ UNCHANGED <<queue, active_champions, overrides>>
         ELSE /\ SetDB(db1)
              /\ last' = Resp("report", mid, uid, winner_team, "pending")
              /\ UNCHANGED <<queue, active_champions, overrides>>

match_finalize(mid, uid, winner_team) ==
    IF mid \notin DOMAIN matches
    THEN /\ last' = Resp("report", mid, uid, winner_team, "match_not_found")
         /\ UNCHANGED <<users, queue, matches, bets, champ_stats, active_champions, overrides>>
    ELSE LET m == matches[mid]
             is_t1 == uid \in Range(m.team1)
             is_t2 == uid \in Range(m.team2)
             m1 == IF is_t1 THEN [ m EXCEPT !.t1_report = winner_team, !.t1_reporter = uid ]
                   ELSE m
             m2 == IF is_t2 THEN [ m1 EXCEPT !.t2_report = winner_team, !.t2_reporter = uid ]
                   ELSE m1
             db1 == [ DB EXCEPT !.matches = [ @ EXCEPT ![mid] = m2 ] ]
             fin == apply_finalize_and_snapshot(db1, mid, m2.t1_report)
         IN
         IF m.status \notin {"in_progress", "finished"}
         THEN /\ last' = Resp("report", mid, uid, winner_team, "invalid_status")
              /\ UNCHANGED <<users, queue, matches, bets, champ_stats, active_champions, overrides>>
         ELSE IF winner_team \notin {1, 2}
         THEN /\ last' = Resp("report", mid, uid, winner_team, "invalid_winner_team")
              /\ UNCHANGED <<users, queue, matches, bets, champ_stats, active_champions, overrides>>
         ELSE IF ~(is_t1 \/ is_t2)
         THEN /\ last' = Resp("report", mid, uid, winner_team, "not_in_match")
              /\ UNCHANGED <<users, queue, matches, bets, champ_stats, active_champions, overrides>>
         ELSE IF m2.t1_report # None /\ m2.t2_report # None
         THEN IF m2.t1_report = m2.t2_report
              THEN /\ SetDB(fin.db)
                   /\ last' = Resp("report", mid, uid, winner_team, fin.resp)
                   /\ UNCHANGED <<queue, active_champions, overrides>>
              ELSE /\ SetDB(db1)
                   /\ last' = Resp("report", mid, uid, winner_team, "mismatch")
                   /\ UNCHANGED <<queue, active_champions, overrides>>
         ELSE /\ SetDB(db1)
              /\ last' = Resp("report", mid, uid, winner_team, "pending")
              /\ UNCHANGED <<queue, active_champions, overrides>>

(* ---------------------- POST /admin/match/cancel ---------------------- *)
admin_match_cancel(mid) ==
    IF mid \notin DOMAIN matches
    THEN /\ last' = Resp("cancel", mid, None, None, "match_not_found")
         /\ UNCHANGED <<users, queue, matches, bets, champ_stats, active_champions, overrides>>
    ELSE LET db1 == IF matches[mid].status = "finished" THEN revert_snapshot(DB, mid) ELSE DB
             db2 == [ db1 EXCEPT !.matches[mid].status = "canceled" ]
         IN /\ SetDB(db2)
            /\ last' = Resp("cancel", mid, None, None, "ok")
            /\ UNCHANGED <<queue, active_champions, overrides>>

(* ------------------ POST /admin/match/override_result ----------------- *)
admin_match_override(mid, winner_team) ==
    /\ overrides < MaxOverrides
    /\ overrides' = overrides + 1
    /\ IF mid \notin DOMAIN matches
       THEN /\ last' = Resp("override", mid, None, winner_team, "match_not_found")
            /\ UNCHANGED <<users, queue, matches, bets, champ_stats, active_champions>>
       ELSE LET db1 == IF matches[mid].status = "finished"
                       THEN [ revert_snapshot(DB, mid) EXCEPT !.matches[mid].status = "in_progress" ]
                       ELSE DB
                fin == apply_finalize_and_snapshot(db1, mid, winner_team)
            IN /\ SetDB(fin.db)
               /\ last' = Resp("override", mid, None, winner_team, fin.resp)
               /\ UNCHANGED <<queue, active_champions>>

(* ----------------------- try_advance_round_or_start ------------------- *)
(* An advance that is content with one of the two picks of the round. *)
try_advance_when_one_picked(m) ==
    LET r == m.draft_round
        u1 == IF r < Len(m.team1) THEN m.team1[r + 1] ELSE None
        u2 == IF r < Len(m.team2) THEN m.team2[r + 1] ELSE None
        adv == /\ r < 3
               /\ u1 # None /\ u2 # None
               /\ (GetPick(m.picks, u1) # NoChamp \/ GetPick(m.picks, u2) # NoChamp)
        m1 == IF adv THEN [ m EXCEPT !.draft_round = r + 1 ] ELSE m
    IN IF m1.draft_round >= 3 /\ m1.status = "draft"
       THEN [ m1 EXCEPT !.status = "in_progress", !.started_at = TRUE,
                        !.bet_deadline = TRUE ]
       ELSE m1

try_advance_round_or_start(m) ==
    LET r == m.draft_round
        u1 == IF r < Len(m.team1) THEN m.team1[r + 1] ELSE None
        u2 == IF r < Len(m.team2) THEN m.team2[r + 1] ELSE None
        adv == /\ r < 3
               /\ u1 # None /\ u2 # None
               /\ GetPick(m.picks, u1) # NoChamp /\ GetPick(m.picks, u2) # NoChamp
        m1 == IF adv THEN [ m EXCEPT !.draft_round = r + 1 ] ELSE m
    IN IF m1.draft_round >= 3 /\ m1.status = "draft"
       THEN [ m1 EXCEPT !.status = "in_progress", !.started_at = TRUE,
                        !.bet_deadline = TRUE ]
       ELSE m1

(* The champions already recorded for the players of a roster. *)
team_picks(picks, team) ==
    { GetPick(picks, team[i]) : i \in DOMAIN team } \ {NoChamp}

(* --------------------------- POST /draft/pick ------------------------- *)
draft_pick_check(m, uid, champion_id, allowed) ==
    LET in1 == uid \in Range(m.team1)
        in2 == uid \in Range(m.team2)
        idx == IF in1 THEN IndexOf(m.team1, uid) - 1 ELSE IndexOf(m.team2, uid) - 1
        team == IF in1 THEN m.team1 ELSE m.team2
    IN IF m.status # "draft" THEN "not_in_draft"
       ELSE IF ~in1 /\ ~in2 THEN "not_in_match"
       ELSE IF idx # m.draft_round THEN "not_your_turn"
       ELSE IF champion_id \notin allowed THEN "champ_not_allowed"
       ELSE IF champion_id \in team_picks(m.picks, team) THEN "champ_already_picked_in_team"
       ELSE "ok"

(* The row that a pick served on row m leaves, and its response. *)
pick_applied(m, uid, champion_id, allowed) ==
    LET chk == draft_pick_check(m, uid, champion_id, allowed)
    IN [ m |-> IF chk = "ok"
               THEN try_advance_round_or_start(
                        [ m EXCEPT !.picks = Put(m.picks, uid, champion_id) ])
               ELSE m,
         resp |-> chk ]

(* A pick handler that stores the pick before it validates the champion. *)
draft_pick_saves_first(mid, uid, champion_id) ==
    IF mid \notin DOMAIN matches
    THEN /\ last' = Resp("pick", mid, uid, None, "match_not_found")
         /\ UNCHANGED <<users, queue, matches, bets, champ_stats, active_champions, overrides>>
    ELSE LET m == matches[mid]
             chk == draft_pick_check(m, uid, champion_id, active_champions)
             m1 == [ m EXCEPT !.picks = Put(m.picks, uid, champion_id) ]
         IN /\ matches' = IF chk = "ok"
                          THEN [ matches EXCEPT ![mid] = try_advance_round_or_start(m1) ]
                          ELSE IF chk \in {"champ_not_allowed", "champ_already_picked_in_team"}
                          THEN [ matches EXCEPT ![mid] = m1 ]
                          ELSE matches
            /\ last' = Resp("pick", mid, uid, None, chk)
            /\ UNCHANGED <<users, queue, bets, champ_stats, active_champions, overrides>>

draft_pick(mid, uid, champion_id) ==
    IF mid \notin DOMAIN matches
    THEN /\ last' = Resp("pick", mid, uid, None, "match_not_found")
         /\ UNCHANGED <<users, queue, matches, bets, champ_stats, active_champions, overrides>>
    ELSE LET m == matches[mid]
             chk == draft_pick_check(m, uid, champion_id, active_champions)
             m1 == [ m EXCEPT !.picks = Put(m.picks, uid, champion_id) ]
         IN /\ matches' = IF chk = "ok"
                          THEN [ matches EXCEPT ![mid] = try_advance_round_or_start(m1) ]
                          ELSE matches
            /\ last' = Resp("pick", mid, uid, None, chk)
            /\ UNCHANGED <<users, queue, bets, champ_stats, active_champions, overrides>>

(* ----------------------- POST /draft/auto_current --------------------- *)
(* The champions random.choice may return for the seat of round r.        *)
auto_choices(picks, team, allowed) ==
    LET free == allowed \ team_picks(picks, team)
    IN IF free # {} THEN free ELSE allowed

(* One iteration of "for team in (t1, t2)" with c the outcome of random.choice. *)
auto_seat(picks, team, r, c) ==
    IF r < Len(team) /\ GetPick(picks, team[r + 1]) = NoChamp
    THEN Put(picks, team[r + 1], c)
    ELSE picks

(* The seat of round r of the team has no pick yet. *)
auto_needs(picks, team, r) ==
    r < Len(team) /\ GetPick(picks, team[r + 1]) = NoChamp

(* The outcomes of the iteration's random.choice: none is drawn for a     *)
(* seat that has its pick, and an empty set means random.choice raises.   *)
auto_draws(picks, team, r, allowed) ==
    IF auto_needs(picks, team, r) THEN auto_choices(picks, team, allowed) ELSE {NoChamp}

draft_auto_current(mid) ==
    IF mid \notin DOMAIN matches
    THEN /\ last' = Resp("auto", mid, None, None, "match_not_found")
         /\ UNCHANGED <<users, queue, matches, bets, champ_stats, active_champions, overrides>>
    ELSE LET m == matches[mid]
             r == m.draft_round
             draws1 == auto_draws(m.picks, m.team1, r, active_champions)
         IN
         IF m.status # "draft"
         THEN /\ last' = Resp("auto", mid, None, None, "ok")
              /\ UNCHANGED <<users, queue, matches, bets, champ_stats, active_champions, overrides>>
         ELSE IF \/ draws1 = {}
                 \/ \E c1 \in draws1 :
                      auto_draws(auto_seat(m.picks, m.team1, r, c1), m.team2, r,
                                 active_champions) = {}
         THEN /\ last' = Resp("auto", mid, None, None, "internal_server_error")
              /\ UNCHANGED <<users, queue, matches, bets, champ_stats, active_champions, overrides>>
         ELSE \E c1 \in draws1 :
                LET p1 == auto_seat(m.picks, m.team1, r, c1) IN
                \E c2 \in auto_draws(p1, m.team2, r, active_champions) :
                  LET p2 == auto_seat(p1, m.team2, r, c2) IN
                  /\ matches' = [ matches EXCEPT
                                    ![mid] = try_advance_round_or_start([ m EXCEPT !.picks = p2 ]) ]
                  /\ last' = Resp("auto", mid, None, None, "ok")
                  /\ UNCHANGED <<users, queue, bets, champ_stats, active_champions, overrides>>

(* --------------------------- POST /bets/place ------------------------- *)
(* late: now() is past the stored bet_deadline when the request is served. *)
bets_place(mid, uid, team, late) ==
    IF mid \notin DOMAIN matches
    THEN /\ last' = Resp("bet", mid, uid, team, "match_not_found")
         /\ UNCHANGED <<users, queue, matches, bets, champ_stats, active_champions, overrides>>
    ELSE LET m == matches[mid]
             chk == IF m.status # "in_progress" THEN "bet_not_open"
                    ELSE IF ~m.bet_deadline \/ late THEN "bet_closed"
                    ELSE IF team \notin {1, 2} THEN "invalid_team"
                    ELSE IF \E b \in bets : b.match_id = mid /\ b.user_id = uid
                    THEN "bet_already_placed"
                    ELSE "ok"
         IN /\ bets' = IF chk = "ok"
                       THEN bets \cup { [ match_id |-> mid, user_id |-> uid, team |-> team ] }
                       ELSE bets
            /\ last' = Resp("bet", mid, uid, team, chk)
            /\ UNCHANGED <<users, queue, matches, champ_stats, active_champions, overrides>>

(* ------------- the settlement of a report, commit by commit ----------- *)
(* _apply_finalize_and_snapshot commits once at its end, and              *)
(* get_or_create_champ_stat commits in between whenever it has to insert  *)
(* a row: that commit writes out every change the session holds by then.  *)
Without(f, k) == [ x \in DOMAIN f \ {k} |-> f[x] ]

(* The seats the two loops walk: the winners, then the losers. *)
settle_order(m, winner_team) ==
    LET winners == IF winner_team = 1 THEN m.team1 ELSE m.team2
        losers  == IF winner_team = 1 THEN m.team2 ELSE m.team1
    IN [ i \in 1 .. Len(winners) |-> <<"winner", winners[i]>> ]
       \o [ i \in 1 .. Len(losers) |-> <<"loser", losers[i]>> ]

(* The session after the guards, the bonus and the broken-streak count. *)
finalize_session(db, mid, winner_team) ==
    LET m == db.matches[mid]
        winners == IF winner_team = 1 THEN m.team1 ELSE m.team2
        losers  == IF winner_team = 1 THEN m.team2 ELSE m.team1
    IN [ mid |-> mid, winner_team |-> winner_team,
         todo |-> settle_order(m, winner_team),
         gain |-> points_win + compute_streak_bonus_per_winner(db.users, losers),
         broken |-> broken_count_by_winner(db.users, winners, losers),
         picks |-> m.picks,
         st |-> [ users |-> db.users, cs |-> db.champ_stats,
                  du |-> << >>, dc |-> << >> ] ]

(* POST /match/finalize up to the start of the loops: the report whose    *)
(* slot agrees with the other side's on an in_progress match commits the  *)
(* slot and enters the settlement; any other report is served as a whole. *)
match_finalize_open(mid, uid, winner_team) ==
    LET known == mid \in DOMAIN matches
        m == matches[mid]
        is_t1 == uid \in Range(m.team1)
        is_t2 == uid \in Range(m.team2)
        m1 == IF is_t1 THEN [ m EXCEPT !.t1_report = winner_team, !.t1_reporter = uid ]
              ELSE m
        m2 == IF is_t2 THEN [ m1 EXCEPT !.t2_report = winner_team, !.t2_reporter = uid ]
              ELSE m1
        db1 == [ DB EXCEPT !.matches = [ @ EXCEPT ![mid] = m2 ] ]
    IN IF /\ known
          /\ m.status = "in_progress"
          /\ winner_team \in {1, 2}
          /\ is_t1 \/ is_t2
          /\ m2.t1_report # None /\ m2.t1_report = m2.t2_report
       THEN /\ <<"finalize", mid>> \notin DOMAIN sessions
            /\ SetDB(db1)
            /\ sessions' = Put(sessions, <<"finalize", mid>>,
                                finalize_session(db1, mid, m2.t1_report))
            /\ last' = Resp("report", mid, uid, winner_team, "settling")
            /\ UNCHANGED <<queue, active_champions, overrides>>
       ELSE /\ match_finalize(mid, uid, winner_team)
            /\ UNCHANGED sessions

(* One iteration of the winners or the losers loop in session key. *)
finalize_step(key) ==
    LET s == sessions[key]
        seat == Head(s.todo)
        uid == seat[2]
        champ == GetPick(s.picks, uid)
        st1 == IF seat[1] = "winner"
               THEN WinnerStep(s.st, uid, s.gain, s.broken, s.picks)
               ELSE LoserStep(s.st, uid, s.picks)
        inserts == champ # NoChamp /\ <<uid, champ>> \notin DOMAIN s.st.cs
    IN /\ s.todo # << >>
       /\ sessions' = [ sessions EXCEPT ![key] = [ s EXCEPT !.todo = Tail(@), !.st = st1 ] ]
       /\ IF inserts
          THEN /\ users' = st1.users
               /\ champ_stats' = get_or_create_champ_stat(s.st.cs, uid, champ)
          ELSE UNCHANGED <<users, champ_stats>>
       /\ UNCHANGED <<queue, matches, bets, active_champions, overrides, last>>

(* The bets loop, the snapshot, status finished and the final commit. *)
finalize_finish(key) ==
    LET s == sessions[key]
        st3 == BetsLoop(s.st, bets, s.mid, s.winner_team)
        nm == [ matches[s.mid] EXCEPT
                  !.status = "finished", !.winner_team = s.winner_team,
                  !.finished_at = TRUE,
                  !.result_deltas = [ users |-> st3.du, champions |-> st3.dc ] ]
    IN /\ s.todo = << >>
       /\ users' = st3.users
       /\ champ_stats' = st3.cs
       /\ matches' = [ matches EXCEPT ![s.mid] = nm ]
       /\ sessions' = Without(sessions, key)
       /\ last' = Resp("report", s.mid, None, s.winner_team, "ok")
       /\ UNCHANGED <<queue, bets, active_champions, overrides>>

(* The request stops part-way (its worker or its connection dies): what   *)
(* the session has not committed is gone, what it has committed stays.    *)
finalize_abort(key) ==
    /\ sessions[key].todo # << >>
    /\ sessions' = Without(sessions, key)
    /\ last' = Resp("report", sessions[key].mid, None, None, "aborted")
    /\ UNCHANGED <<users, queue, matches, bets, champ_stats, active_champions, overrides>>

(* ------------- POST /queue/enter, statement by statement -------------- *)
(* The handler holds no lock: between its commits and its reads other     *)
(* requests run. A session <<"enter", uid>> is at pc "added" after the    *)
(* ticket is committed, "read" after the rows are read, "deleted" after   *)
(* the six are deleted and committed, "checked" after the checks of       *)
(* create_match_internal.                                                 *)
enter_add(uid) ==
    LET v == validate_not_in_match_or_queue(queue, matches, uid)
    IN /\ <<"enter", uid>> \notin DOMAIN sessions
       /\ IF v # "ok"
          THEN /\ last' = Resp("enter", None, uid, None, v)
               /\ UNCHANGED <<queue, sessions>>
          ELSE /\ queue' = Append(queue, uid)
               /\ sessions' = Put(sessions, <<"enter", uid>>, [ pc |-> "added", ids |-> << >> ])
               /\ UNCHANGED last
       /\ UNCHANGED <<users, matches, bets, champ_stats, active_champions, overrides>>

enter_read(key) ==
    LET s == sessions[key]
        rows == queue
    IN /\ s.pc = "added"
       /\ IF Len(rows) >= 6
          THEN /\ sessions' = [ sessions EXCEPT ![key] = [ pc |-> "read", ids |-> SubSeq(rows, 1, 6) ] ]
               /\ UNCHANGED last
          ELSE /\ sessions' = Without(sessions, key)
               /\ last' = Resp("enter", None, key[2], None, "ok")
       /\ UNCHANGED <<users, queue, matches, bets, champ_stats, active_champions, overrides>>

(* A DELETE of a row another session has deleted matches no row: the      *)
(* mapper warns and the commit goes through.                              *)
enter_delete(key) ==
    LET s == sessions[key]
        stays(q) == q \notin Range(s.ids)
    IN /\ s.pc = "read"
       /\ queue' = SelectSeq(queue, stays)
       /\ sessions' = [ sessions EXCEPT ![key] = [ s EXCEPT !.pc = "deleted" ] ]
       /\ UNCHANGED <<users, matches, bets, champ_stats, active_champions, overrides, last>>

enter_check(key) ==
    LET s == sessions[key]
        chk == create_check(matches, s.ids)
    IN /\ s.pc = "deleted"
       /\ IF chk = "ok"
          THEN /\ sessions' = [ sessions EXCEPT ![key] = [ s EXCEPT !.pc = "checked" ] ]
               /\ UNCHANGED last
          ELSE /\ sessions' = Without(sessions, key)
               /\ last' = Resp("enter", None, key[2], None, chk)
       /\ UNCHANGED <<users, queue, matches, bets, champ_stats, active_champions, overrides>>

enter_insert(key, perm) ==
    LET s == sessions[key]
    IN /\ s.pc = "checked"
       /\ Len(matches) < MaxMatches
       /\ matches' = create_match_internal(matches, users, s.ids, perm)
       /\ sessions' = Without(sessions, key)
       /\ last' = Resp("enter", Len(matches) + 1, key[2], None, "ok")
       /\ UNCHANGED <<users, queue, bets, champ_stats, active_champions, overrides>>

(* -------------- POST /draft/pick, read and commit apart --------------- *)
(* draft_pick reads the row with db.get, changes its copy and commits;    *)
(* the UPDATE of the commit carries the columns the handler changed, and  *)
(* nothing compares the row with the one that was read.                   *)
pick_begin(mid, uid, champion_id) ==
    IF mid \notin DOMAIN matches
    THEN /\ last' = Resp("pick", mid, uid, None, "match_not_found")
         /\ UNCHANGED <<users, queue, matches, bets, champ_stats, active_champions,
                        overrides, sessions>>
    ELSE LET a == pick_applied(matches[mid], uid, champion_id, active_champions)
         IN /\ <<"pick", uid>> \notin DOMAIN sessions
            /\ IF a.resp = "ok"
               THEN /\ sessions' = Put(sessions, <<"pick", uid>>,
                                       [ mid |-> mid, read |-> matches[mid], write |-> a.m ])
                    /\ UNCHANGED last
               ELSE /\ last' = Resp("pick", mid, uid, None, a.resp)
                    /\ UNCHANGED sessions
            /\ UNCHANGED <<users, queue, matches, bets, champ_stats, active_champions, overrides>>

(* The row after the UPDATE of session s on the committed row cur. *)
pick_update(cur, s) ==
    [ cur EXCEPT
        !.picks = s.write.picks,
        !.draft_round = IF s.write.draft_round # s.read.draft_round
                        THEN s.write.draft_round ELSE @,
        !.status = IF s.write.status # s.read.status THEN s.write.status ELSE @,
        !.started_at = IF s.write.started_at # s.read.started_at
                       THEN s.write.started_at ELSE @,
        !.bet_deadline = IF s.write.bet_deadline # s.read.bet_deadline
                         THEN s.write.bet_deadline ELSE @ ]

pick_commit(key) ==
    LET s == sessions[key]
    IN /\ matches' = [ matches EXCEPT ![s.mid] = pick_update(matches[s.mid], s) ]
       /\ sessions' = Without(sessions, key)
       /\ last' = Resp("pick", s.mid, key[2], None, "ok")
       /\ UNCHANGED <<users, queue, bets, champ_stats, active_champions, overrides>>

(* ------------ POST /match/finalize, statement by statement ----------- *)
(* The handler commits its report slot, refreshes the row and, when the   *)
(* slots agree, runs _apply_finalize_and_snapshot on the row it has       *)
(* refreshed: the users are read and the settlement is committed later,   *)
(* and nothing locks the match in between.                                *)
report_slot(mid, uid, winner_team) ==
    LET known == mid \in DOMAIN matches
        m == matches[mid]
        is_t1 == uid \in Range(m.team1)
        is_t2 == uid \in Range(m.team2)
        m1 == IF is_t1 THEN [ m EXCEPT !.t1_report = winner_team, !.t1_reporter = uid ]
              ELSE m
        m2 == IF is_t2 THEN [ m1 EXCEPT !.t2_report = winner_team, !.t2_reporter = uid ]
              ELSE m1
        refused == IF ~known THEN "match_not_found"
                   ELSE IF m.status \notin {"in_progress", "finished"} THEN "invalid_status"
                   ELSE IF winner_team \notin {1, 2} THEN "invalid_winner_team"
                   ELSE IF ~(is_t1 \/ is_t2) THEN "not_in_match"
                   ELSE "ok"
    IN /\ <<"report", uid>> \notin DOMAIN sessions
       /\ IF refused # "ok"
          THEN /\ last' = Resp("report", mid, uid, winner_team, refused)
               /\ UNCHANGED <<matches, sessions>>
          ELSE /\ matches' = [ matches EXCEPT ![mid] = m2 ]
               /\ sessions' = Put(sessions, <<"report", uid>>,
                                  [ pc |-> "slot", mid |-> mid, winner_team |-> winner_team ])
               /\ UNCHANGED last
       /\ UNCHANGED <<users, queue, bets, champ_stats, active_champions, overrides>>

(* db.refresh(m), the comparison of the slots and the guards of           *)
(* _apply_finalize_and_snapshot, all on the refreshed row.                *)
report_refresh(key) ==
    LET s == sessions[key]
        m == matches[s.mid]
        resp == IF m.t1_report # None /\ m.t2_report # None
                THEN IF m.t1_report = m.t2_report
                     THEN IF m.status = "finished" THEN "ok" ELSE "settle"
                     ELSE "mismatch"
                ELSE "pending"
    IN /\ s.pc = "slot"
       /\ IF resp = "settle"
          THEN /\ sessions' = [ sessions EXCEPT ![key] =
                                  [ s EXCEPT !.pc = "settle", !.winner_team = m.t1_report ] ]
               /\ UNCHANGED last
          ELSE /\ sessions' = Without(sessions, key)
               /\ last' = Resp("report", s.mid, key[2], s.winner_team, resp)
       /\ UNCHANGED <<users, queue, matches, bets, champ_stats, active_champions, overrides>>

(* The loops over the users as they are now, and the final commit. *)
report_settle(key) ==
    LET s == sessions[key]
    IN /\ s.pc = "settle"
       /\ SetDB(settle(DB, s.mid, s.winner_team))
       /\ sessions' = Without(sessions, key)
       /\ last' = Resp("report", s.mid, key[2], s.winner_team, "ok")
       /\ UNCHANGED <<queue, active_champions, overrides>>

(* ------------------------------- Init --------------------------------- *)
(* The database after h earlier matches in which players 1, 2, 3 beat 4,  *)
(* 5, 6 with one champion per seat. Those rows are settled with the code  *)
(* above; no later request addresses them, so they are not kept in        *)
(* matches.                                                               *)
HistoryMatch ==
    [ NewMatch([ p \in Players |-> ZeroUser ], <<1, 2, 3, 4, 5, 6>>) EXCEPT
        !.status = "in_progress", !.started_at = TRUE, !.bet_deadline = TRUE,
        !.draft_round = 3,
        !.picks = (1 :> "c1") @@ (2 :> "c2") @@ (3 :> "c3")
                  @@ (4 :> "c1") @@ (5 :> "c2") @@ (6 :> "c3") ]

RECURSIVE HistoryDB(_)
HistoryDB(h) ==
    IF h = 0
    THEN [ users |-> [ p \in Players |-> ZeroUser ], matches |-> << >>,
           champ_stats |-> << >>, bets |-> {} ]
    ELSE LET db == [ HistoryDB(h - 1) EXCEPT !.matches = <<HistoryMatch>> ]
         IN [ apply_finalize_and_snapshot(db, 1, 1).db EXCEPT !.matches = << >> ]

Histories == {0, MaxHistory}

InitWith(hs) ==
    \E h \in hs, pool \in ChampionPools :
        /\ users = HistoryDB(h).users
        /\ champ_stats = HistoryDB(h).champ_stats
        /\ queue = << >>
        /\ matches = << >>
        /\ bets = {}
        /\ active_champions = pool
        /\ overrides = 0
        /\ last = Resp("init", None, None, None, "ok")
        /\ sessions = << >>

Init == InitWith(Histories)

(* The database as the module creates it: registered players, no match. *)
InitFresh == InitWith({0})

(* ------------------------------- Next --------------------------------- *)
(* Request inputs. Requests address the matches of the table; a pick may  *)
(* also name the next, still unknown, id. Player 7 is in no roster of     *)
(* CreateInputs; "cx" is in no pool; winner 3 passes the request schema   *)
(* (any int) but is no side.                                              *)
Known == DOMAIN matches
Addressed == 1 .. (Len(matches) + 1)
Pickers == {1, 4, 7}
PickInputs == {"c1", "cx"}
BetInputs == { <<1, 1>>, <<7, 2>> }

Leave ==
    \E uid \in Players :
        /\ queue_leave(uid)
        /\ UNCHANGED sessions

Create ==
    \E ids \in CreateInputs, perm \in Shuffles :
        /\ match_create(ids, perm)
        /\ UNCHANGED sessions

Pick ==
    \E mid \in Addressed, uid \in Pickers, c \in PickInputs :
        /\ draft_pick(mid, uid, c)
        /\ UNCHANGED sessions

Auto ==
    \E mid \in Known :
        /\ draft_auto_current(mid)
        /\ UNCHANGED sessions

Bet ==
    \E mid \in Known, b \in BetInputs, late \in BOOLEAN :
        /\ bets_place(mid, b[1], b[2], late)
        /\ UNCHANGED sessions

Report ==
    \E mid \in Known, uid \in Reporters, w \in WinnerInputs :
        /\ match_finalize(mid, uid, w)
        /\ UNCHANGED sessions

Cancel ==
    \E mid \in Known :
        /\ admin_match_cancel(mid)
        /\ UNCHANGED sessions

Override ==
    \E mid \in Known, w \in WinnerInputs :
        /\ admin_match_override(mid, w)
        /\ UNCHANGED sessions

(* Spec: the whole life of the first match of the table. *)
CreateFirst == matches = << >> /\ Create

Next ==
    \/ CreateFirst
    \/ Pick
    \/ Auto
    \/ Bet
    \/ Report
    \/ Cancel
    \/ Override

Spec == Init /\ [][Next]_vars

(* SpecTwo: matches that follow one another on the same six players, each *)
(* drafted by auto-fill and reported as won by team 1, with the admin     *)
(* requests on each of them.                                              *)
CreateSix ==
    \E perm \in Shuffles :
        /\ match_create(<<1, 2, 3, 4, 5, 6>>, perm)
        /\ UNCHANGED sessions

ReportOne ==
    \E mid \in Known, uid \in Reporters :
        /\ match_finalize(mid, uid, 1)
        /\ UNCHANGED sessions

NextTwo ==
    \/ CreateSix
    \/ Auto
    \/ ReportOne
    \/ Cancel
    \/ Override

SpecTwo == InitFresh /\ [][NextTwo]_vars

(* SpecQueue: the queue, with the admin's create and cancel beside it.    *)
(* Players join in the order of their ids: a caller is either queued      *)
(* already or has a higher id than every queued player.                   *)
EnterInOrder ==
    \E uid \in Players, perm \in Shuffles :
        /\ uid \in Range(queue) \/ \A i \in DOMAIN queue : queue[i] < uid
        /\ queue_enter(uid, perm)
        /\ UNCHANGED sessions

NextQueue ==
    \/ EnterInOrder
    \/ Leave
    \/ CreateSix
    \/ Cancel

SpecQueue == InitFresh /\ [][NextQueue]_vars

(* SpecEnter: the queue alone. Matches come from the queue and are ended  *)
(* by the admin's cancel; the shuffle is left at the identity, as the     *)
(* order inside a roster plays no part in the queue. Any player may call  *)
(* and be refused; of the players that would be admitted, the one with    *)
(* the lowest id calls first. The first and the last player may leave.    *)
Eligible ==
    { p \in Players : p \notin Range(queue) /\ ~is_user_in_active_match(matches, p) }

EnterUnshuffled ==
    \E uid \in Players :
        /\ uid \in Eligible => \A p \in Eligible : uid <= p
        /\ queue_enter(uid, <<1, 2, 3, 4, 5, 6>>)
        /\ UNCHANGED sessions

Leavers == {1, NumPlayers}
LeaveSome ==
    \E uid \in Leavers :
        /\ queue_leave(uid)
        /\ UNCHANGED sessions

NextEnter ==
    \/ EnterUnshuffled
    \/ LeaveSome
    \/ Cancel

SpecEnter == InitFresh /\ [][NextEnter]_vars

(* SpecSettle: one match of players 1..6, drafted by auto-fill, bet on,   *)
(* reported and canceled, on a database in which players 1, 2, 3 come     *)
(* from 0 .. MaxStreak wins in a row.                                     *)
InitStreaks == InitWith(0 .. MaxStreak)

CreateOnce == matches = << >> /\ CreateSix

NextSettle ==
    \/ CreateOnce
    \/ Auto
    \/ Bet
    \/ Report
    \/ Cancel

SpecSettle == InitStreaks /\ [][NextSettle]_vars

(* SpecSteps: one match, drafted by auto-fill and reported, with the      *)
(* settlement served commit by commit.                                    *)
FinalizeKeys == { k \in DOMAIN sessions : k[1] = "finalize" }

ReportOpen ==
    \E mid \in Known, uid \in Reporters, w \in WinnerInputs :
        match_finalize_open(mid, uid, w)

FinalizeStep ==  \E key \in FinalizeKeys : finalize_step(key)
FinalizeFinish == \E key \in FinalizeKeys : finalize_finish(key)
FinalizeAbort == \E key \in FinalizeKeys : finalize_abort(key)

NextSteps ==
    \/ CreateOnce
    \/ Auto
    \/ ReportOpen
    \/ FinalizeStep
    \/ FinalizeFinish
    \/ FinalizeAbort

SpecSteps == Init /\ [][NextSteps]_vars

(* SpecEnterRace: enter requests only, served statement by statement, at *)
(* most MaxSessions of them open at a time; the players arrive in the     *)
(* order of their ids.                                                    *)
MaxSessions == 2

EnterKeys == { k \in DOMAIN sessions : k[1] = "enter" }

Arriving ==
    { p \in Eligible : <<"enter", p>> \notin DOMAIN sessions }

EnterAdd ==
    \E uid \in Players :
        /\ Cardinality(EnterKeys) < MaxSessions
        /\ uid \in Arriving => \A p \in Arriving : uid <= p
        /\ enter_add(uid)

EnterRead == \E key \in EnterKeys : enter_read(key)
EnterDelete == \E key \in EnterKeys : enter_delete(key)
EnterCheck == \E key \in EnterKeys : enter_check(key)
EnterInsert == \E key \in EnterKeys : enter_insert(key, <<1, 2, 3, 4, 5, 6>>)

NextEnterRace ==
    \/ EnterAdd
    \/ EnterRead
    \/ EnterDelete
    \/ EnterCheck
    \/ EnterInsert

SpecEnterRace == InitFresh /\ [][NextEnterRace]_vars

(* SpecPickRace: one match; picks are served as a read and a later       *)
(* commit, at most MaxSessions of them open at a time; auto-fill is       *)
(* called only while no pick is open.                                     *)
PickKeys == { k \in DOMAIN sessions : k[1] = "pick" }

PickBegin ==
    \E mid \in Known, uid \in Players, c \in PickInputs :
        /\ Cardinality(PickKeys) < MaxSessions
        /\ pick_begin(mid, uid, c)

PickCommit == \E key \in PickKeys : pick_commit(key)

AutoAlone == sessions = << >> /\ Auto

NextPickRace ==
    \/ CreateOnce
    \/ PickBegin
    \/ PickCommit
    \/ AutoAlone

SpecPickRace == Init /\ [][NextPickRace]_vars

(* SpecReportRace: one match on a fresh database; reports are served     *)
(* statement by statement, at most MaxSessions of them open at a time,    *)
(* no report is sent on a finished match, and the admin may cancel at any *)
(* moment.                                                                *)
ReportKeys == { k \in DOMAIN sessions : k[1] = "report" }

ReportSlot ==
    \E mid \in Known, uid \in Reporters, w \in WinnerInputs :
        /\ Cardinality(ReportKeys) < MaxSessions
        /\ matches[mid].status # "finished"
        /\ report_slot(mid, uid, w)

ReportRefresh == \E key \in ReportKeys : report_refresh(key)
ReportSettle == \E key \in ReportKeys : report_settle(key)

NextReportRace ==
    \/ CreateOnce
    \/ AutoAlone
    \/ ReportSlot
    \/ ReportRefresh
    \/ ReportSettle
    \/ Cancel

SpecReportRace == InitFresh /\ [][NextReportRace]_vars

(* SpecDraft: the draft of one match, by picks and auto-fill, under each  *)
(* pool of active champions the admin may have configured, the empty one  *)
(* included.                                                              *)
DraftPools == { {}, {"c1"}, {"c1", "c2"} }

InitDraft ==
    \E pool \in DraftPools :
        /\ users = HistoryDB(0).users
        /\ champ_stats = HistoryDB(0).champ_stats
        /\ queue = << >>
        /\ matches = << >>
        /\ bets = {}
        /\ active_champions = pool
        /\ overrides = 0
        /\ last = Resp("init", None, None, None, "ok")
        /\ sessions = << >>

DraftInputs == {"c1", "c2"}

PickDraft ==
    \E mid \in Known, uid \in Pickers, c \in DraftInputs :
        /\ draft_pick(mid, uid, c)
        /\ UNCHANGED sessions

NextDraft ==
    \/ CreateOnce
    \/ PickDraft
    \/ Auto

SpecDraft == InitDraft /\ [][NextDraft]_vars

(* SpecBettor: players 1..6 play the first match and players 2..7 the    *)
(* second, unshuffled; player 7 bets; matches are drafted by auto-fill,   *)
(* reported and cancelled.                                                *)
CreateInTurn ==
    /\ match_create(IF matches = << >> THEN <<1, 2, 3, 4, 5, 6>> ELSE <<2, 3, 4, 5, 6, 7>>,
                    <<1, 2, 3, 4, 5, 6>>)
    /\ UNCHANGED sessions

BetSeven ==
    \E mid \in Known, team \in {1, 2} :
        /\ bets_place(mid, NumPlayers, team, FALSE)
        /\ UNCHANGED sessions

ReportTeam ==
    \E mid \in Known, uid \in Reporters, w \in {1, 2} :
        /\ match_finalize(mid, uid, w)
        /\ UNCHANGED sessions

NextBettor ==
    \/ CreateInTurn
    \/ Auto
    \/ BetSeven
    \/ ReportTeam
    \/ Cancel

SpecBettor == InitFresh /\ [][NextBettor]_vars

(* ====================================================================== *)
(*                              Properties                                *)
(* ====================================================================== *)
(* Responses raised as HTTPException: the request failed. *)
Failures ==
    { "match_not_found", "invalid_status", "invalid_winner_team", "not_in_match",
      "need_6_players", "user_in_other_match", "already_in_queue", "already_in_match",
      "not_in_draft", "not_your_turn", "champ_not_allowed",
      "champ_already_picked_in_team", "bet_not_open", "bet_closed", "invalid_team",
      "bet_already_placed" }

(* Match mid has six distinct players, as a create of six distinct ids    *)
(* gives it. The statements that the code does not meet are checked on    *)
(* such matches, so that no violation rests on a roster with a repeated   *)
(* player.                                                                *)
Proper(mid) ==
    /\ mid \in DOMAIN matches
    /\ Cardinality(Range(matches[mid].team1) \cup Range(matches[mid].team2)) = 6

(* The step just taken served request op on the existing match mid. *)
Served(op, mid) ==
    /\ last'.op = op
    /\ last'.m = mid
    /\ mid \in DOMAIN matches
    /\ mid \in DOMAIN matches'

RECURSIVE SumPlayed(_, _)
SumPlayed(us, ps) ==
    IF ps = {} THEN 0
    ELSE LET p == CHOOSE x \in ps : TRUE IN us[p].played + SumPlayed(us, ps \ {p})

TotalPlayed(us) == SumPlayed(us, DOMAIN us)

(* A report the handler accepted: the caller is in a roster, the side is 1 or 2. *)
ReportAccepted == last'.resp \in {"ok", "mismatch", "pending"}

(* C1 as stated: an accepted report on an in_progress match after which   *)
(* both slots hold the same winner settles once and finishes the match    *)
(* with that winner, and an accepted report on a match that two agreeing  *)
(* reports have finished (no override was served) returns success and     *)
(* changes no player's stats.                                             *)
C1_ReportOnFinishedSucceeds ==
    [][ \A mid \in MatchIds :
          (Served("report", mid) /\ ReportAccepted /\ Proper(mid)) =>
            /\ ( /\ matches[mid].status = "in_progress"
                 /\ matches'[mid].t1_report # None
                 /\ matches'[mid].t1_report = matches'[mid].t2_report )
               => /\ matches'[mid].status = "finished"
                  /\ matches'[mid].winner_team = matches'[mid].t1_report
                  /\ TotalPlayed(users') = TotalPlayed(users) + 6
            /\ ( /\ matches[mid].status = "finished"
                 /\ overrides = 0
                 /\ matches[mid].t1_report = matches[mid].t2_report )
               => /\ last'.resp = "ok"
                  /\ users' = users
      ]_vars

(* C1 amended: as above, except that an accepted report on a finished     *)
(* match answers by the slots it leaves: success when they agree, the     *)
(* mismatch Conflict when they differ, pending when the other is empty;   *)
(* in each case the stats, the winner and the snapshot stay as they were. *)
(* And no step changes a player's stats unless it moves a match into or   *)
(* out of finished, or is an override that reverts a finished match.      *)
C1_SettledOnce ==
    [][ /\ \A mid \in MatchIds :
             (Served("report", mid) /\ ReportAccepted) =>
               /\ ( /\ matches[mid].status = "in_progress"
                    /\ matches'[mid].t1_report # None
                    /\ matches'[mid].t1_report = matches'[mid].t2_report )
                  => /\ matches'[mid].status = "finished"
                     /\ matches'[mid].winner_team = matches'[mid].t1_report
                     /\ last'.resp = "ok"
                     /\ TotalPlayed(users') = TotalPlayed(users) + 6
               /\ matches[mid].status = "finished"
                  => /\ users' = users
                     /\ champ_stats' = champ_stats
                     /\ matches'[mid].status = "finished"
                     /\ matches'[mid].winner_team = matches[mid].winner_team
                     /\ matches'[mid].result_deltas = matches[mid].result_deltas
                     /\ last'.resp =
                          IF matches'[mid].t1_report = None \/ matches'[mid].t2_report = None
                          THEN "pending"
                          ELSE IF matches'[mid].t1_report = matches'[mid].t2_report
                          THEN "ok" ELSE "mismatch"
        /\ users' # users =>
             \E mid \in DOMAIN matches :
                 \/ (matches[mid].status = "finished") # (matches'[mid].status = "finished")
                 \/ /\ last'.op = "override" /\ last'.m = mid
                    /\ matches[mid].status = "finished"
      ]_vars

(* A side has reported again, with the other winner, on a match that two  *)
(* agreeing reports had finished: the match stays finished with its       *)
(* winner while the slots now differ.                                     *)
C1_Witness ==
    /\ last.op = "report" /\ last.resp = "mismatch"
    /\ overrides = 0
    /\ \E mid \in DOMAIN matches :
         /\ last.m = mid
         /\ Proper(mid)
         /\ matches[mid].status = "finished"
         /\ matches[mid].t1_report # matches[mid].t2_report
         /\ matches[mid].winner_team \in {1, 2}
         /\ matches[mid].result_deltas # NoDeltas

(* C2: an override of a match that is not finished fails with the         *)
(* invalid-state error and changes neither the matches nor the stats.     *)
C2_OverrideNeedsFinished ==
    [][ \A mid \in MatchIds :
          (Served("override", mid) /\ Proper(mid) /\ matches[mid].status # "finished") =>
            /\ last'.resp = "invalid_status"
            /\ matches' = matches
            /\ users' = users
      ]_vars

(* C3: a request that fails leaves the database as it was; an override    *)
(* of a finished match that is rejected leaves the match finished.        *)
C3_FailureIsAtomic ==
    [][ (last'.resp \in Failures /\ \A mid \in DOMAIN matches : Proper(mid)) =>
          /\ users' = users
          /\ matches' = matches
          /\ champ_stats' = champ_stats
          /\ bets' = bets
          /\ queue' = queue
      ]_vars

(* The step just taken reverted the snapshot of the finished match mid: a *)
(* cancel of it, or an override of it that was rejected after the revert. *)
Reverted(mid) ==
    /\ matches[mid].status = "finished"
    /\ \/ Served("cancel", mid)
       \/ Served("override", mid) /\ last'.resp = "invalid_winner_team"

(* C4: a revert subtracts from every player of the snapshot its recorded  *)
(* score, wins, losses, played and correct_bets deltas, sets              *)
(* current_streak to the recorded streak_old, keeps max_streak, leaves    *)
(* every other player alone, clears winner, finished_at and the snapshot  *)
(* and keeps rosters, picks and both report slots.                        *)
C4_RevertExact ==
    [][ \A mid \in MatchIds :
          (mid \in DOMAIN matches /\ Reverted(mid)) =>
            LET m == matches[mid]
                n == matches'[mid]
                du == m.result_deltas.users
            IN /\ \A p \in Players :
                    IF p \in DOMAIN du
                    THEN /\ users'[p].score = users[p].score - du[p].score_delta
                         /\ users'[p].wins = users[p].wins - du[p].wins_delta
                         /\ users'[p].losses = users[p].losses - du[p].losses_delta
                         /\ users'[p].played = users[p].played - du[p].played_delta
                         /\ users'[p].correct_bets
                              = users[p].correct_bets - du[p].correct_bets_delta
                         /\ users'[p].current_streak = du[p].streak_old
                         /\ users'[p].max_streak = users[p].max_streak
                    ELSE users'[p] = users[p]
               /\ n.winner_team = None
               /\ ~n.finished_at
               /\ n.result_deltas = NoDeltas
               /\ n.team1 = m.team1 /\ n.team2 = m.team2
               /\ n.picks = m.picks
               /\ n.t1_report = m.t1_report /\ n.t2_report = m.t2_report
               /\ n.t1_reporter = m.t1_reporter /\ n.t2_reporter = m.t2_reporter
      ]_vars

(* A cancel has reverted a settlement that two agreeing reports applied   *)
(* while a bet stood on the match: a player keeps a max_streak above his  *)
(* wins, which only a reverted win leaves behind.                         *)
C4_Witness ==
    /\ last.op = "cancel" /\ overrides = 0
    /\ \E mid \in DOMAIN matches :
         /\ last.m = mid
         /\ Proper(mid)
         /\ matches[mid].status = "canceled"
         /\ matches[mid].t1_report # None
         /\ matches[mid].t1_report = matches[mid].t2_report
         /\ \E b \in bets : b.match_id = mid /\ b.team = matches[mid].t1_report
    /\ \E p \in Players : users[p].max_streak > users[p].wins

(* The step just taken settled match mid. *)
Settled(mid) ==
    /\ mid \in DOMAIN matches /\ mid \in DOMAIN matches'
    /\ matches[mid].status # "finished"
    /\ matches'[mid].status = "finished"

(* C5: settling a match and reverting it at once gives every player back  *)
(* his score, wins, losses, played, current_streak, correct_bets and      *)
(* streaks_broken.                                                        *)
C5_SettleRevertRestores ==
    [][ \A mid \in MatchIds :
          (Settled(mid) /\ Proper(mid) /\ last'.op = "report") =>
            LET back == revert_snapshot(DB', mid).users
            IN \A p \in Players :
                 /\ back[p].score = users[p].score
                 /\ back[p].wins = users[p].wins
                 /\ back[p].losses = users[p].losses
                 /\ back[p].played = users[p].played
                 /\ back[p].current_streak = users[p].current_streak
                 /\ back[p].correct_bets = users[p].correct_bets
                 /\ back[p].streaks_broken = users[p].streaks_broken
      ]_vars

(* C6: an override of a finished match with the winner it already has     *)
(* leaves every player's score, wins, losses and current_streak as they   *)
(* were before the call.                                                  *)
C6_OverrideSameWinnerRoundTrip ==
    [][ \A mid \in MatchIds :
          ( /\ Served("override", mid) /\ last'.resp = "ok"
            /\ Proper(mid)
            /\ matches[mid].status = "finished"
            /\ matches'[mid].winner_team = matches[mid].winner_team )
          => \A p \in Players :
               /\ users'[p].score = users[p].score
               /\ users'[p].wins = users[p].wins
               /\ users'[p].losses = users[p].losses
               /\ users'[p].current_streak = users[p].current_streak
      ]_vars

(* C7: a cancel ends with status canceled, no winner and started_at,      *)
(* bet_deadline and finished_at cleared; it changes no stats unless the   *)
(* match was finished.                                                    *)
C7_CancelClears ==
    [][ \A mid \in MatchIds :
          (Served("cancel", mid) /\ Proper(mid)) =>
            /\ matches'[mid].status = "canceled"
            /\ matches'[mid].winner_team = None
            /\ ~matches'[mid].started_at
            /\ ~matches'[mid].bet_deadline
            /\ ~matches'[mid].finished_at
            /\ matches[mid].status # "finished" => users' = users
      ]_vars

(* The players of the rosters of match mid. *)
Roster(ms, mid) == Range(ms[mid].team1) \cup Range(ms[mid].team2)

(* C8: an enter creates a match exactly when it brings the tickets to     *)
(* six; the match is in draft with the five queued players and the        *)
(* caller, and the queue is then empty; an enter that creates no match    *)
(* removes no ticket.                                                     *)
C8_EnterFormsMatch ==
    [][ last'.op = "enter" =>
          IF Len(matches') > Len(matches)
          THEN /\ Len(queue) = 5
               /\ queue' = << >>
               /\ matches'[Len(matches')].status = "draft"
               /\ Range(queue) \subseteq Roster(matches', Len(matches'))
               /\ Cardinality(Roster(matches', Len(matches'))) = 6
          ELSE /\ Len(queue') < 6
               /\ Range(queue) \subseteq Range(queue')
      ]_vars

(* C9: no player is in the rosters of two matches that are in draft or    *)
(* in_progress.                                                           *)
C9_OneActiveMatchPerPlayer ==
    \A p \in Players :
        Cardinality({ mid \in DOMAIN matches :
                        /\ matches[mid].status \in {"draft", "in_progress"}
                        /\ p \in Roster(matches, mid) }) <= 1

(* C10: a created match has two disjoint rosters of three distinct        *)
(* players, and a create that is refused creates nothing.                 *)
C10_CreatePartitions ==
    /\ \A mid \in DOMAIN matches :
         /\ Cardinality(Range(matches[mid].team1)) = 3
         /\ Cardinality(Range(matches[mid].team2)) = 3
         /\ Range(matches[mid].team1) \cap Range(matches[mid].team2) = {}
    /\ (last.op = "create" /\ last.resp \in Failures) => last.m = None

(* The report slot of a side: the claimed winner and who claimed it. *)
Slot1(m) == <<m.t1_report, m.t1_reporter>>
Slot2(m) == <<m.t2_report, m.t2_reporter>>

(* C11: a report that leaves different winners in the two slots of an     *)
(* in_progress match answers mismatch, keeps the match in_progress without *)
(* a winner, changes no stats and leaves both slots filled; a report       *)
(* changes the slot of a side only when its caller is in that side's       *)
(* roster (for six distinct players: never both slots); and an accepted    *)
(* report on an in_progress match settles it exactly when the slots it     *)
(* leaves agree.                                                           *)
C11_MismatchKeepsInProgress ==
    [][ \A mid \in MatchIds :
          Served("report", mid) =>
            LET m == matches[mid]
                n == matches'[mid]
            IN /\ (last'.resp = "mismatch" /\ m.status = "in_progress") =>
                    /\ n.status = "in_progress"
                    /\ n.winner_team = None
                    /\ n.result_deltas = NoDeltas
                    /\ users' = users
                    /\ champ_stats' = champ_stats
                    /\ n.t1_report \in {1, 2} /\ n.t2_report \in {1, 2}
                    /\ n.t1_report # n.t2_report
               /\ Slot1(n) # Slot1(m) => n.t1_reporter \in Range(m.team1)
               /\ Slot2(n) # Slot2(m) => n.t2_reporter \in Range(m.team2)
               /\ Proper(mid) => (Slot1(n) = Slot1(m) \/ Slot2(n) = Slot2(m))
               /\ n.team1 = m.team1 /\ n.team2 = m.team2 /\ n.picks = m.picks
               /\ (ReportAccepted /\ m.status = "in_progress") =>
                    /\ (last'.resp = "mismatch") <=>
                         (n.t1_report # None /\ n.t2_report # None
                          /\ n.t1_report # n.t2_report)
                    /\ (n.status = "finished") <=>
                         (n.t1_report # None /\ n.t1_report = n.t2_report)
                    /\ n.status = "finished" =>
                         (n.winner_team = n.t1_report /\ last'.resp = "ok")
      ]_vars

(* The two sides of an in_progress match of six distinct players have     *)
(* just been found to disagree.                                           *)
C11_Witness ==
    /\ last.op = "report" /\ last.resp = "mismatch"
    /\ \E mid \in DOMAIN matches :
         /\ last.m = mid
         /\ Proper(mid)
         /\ matches[mid].status = "in_progress"
         /\ matches[mid].t1_report # None /\ matches[mid].t2_report # None
         /\ matches[mid].t1_report # matches[mid].t2_report
         /\ matches[mid].t1_reporter \in Range(matches[mid].team1)
         /\ matches[mid].t2_reporter \in Range(matches[mid].team2)

(* C12: an enter by a player who holds a ticket or is in a draft or       *)
(* in_progress match is refused and changes neither the queue nor the     *)
(* matches; any other enter appends the caller's ticket behind the ones   *)
(* queued (when that makes six, the six are taken off the queue at once); *)
(* and after every step each player holds at most one ticket and fewer    *)
(* than six tickets wait.                                                 *)
C12_EnterValidates ==
    [][ /\ Cardinality(Range(queue')) = Len(queue')
        /\ Len(queue') < 6
        /\ \A uid \in Players, perm \in Shuffles :
             (last'.op = "enter" /\ queue_enter(uid, perm)) =>
               IF uid \in Range(queue) \/ is_user_in_active_match(matches, uid)
               THEN /\ last'.resp \in {"already_in_queue", "already_in_match"}
                    /\ queue' = queue
                    /\ matches' = matches
               ELSE /\ last'.resp \notin {"already_in_queue", "already_in_match"}
                    /\ IF Len(queue) < 5
                       THEN queue' = Append(queue, uid) /\ last'.resp = "ok"
                       ELSE queue' = << >>
      ]_vars

(* A refused enter: the caller holds no ticket but is in a draft match    *)
(* that the queue formed, while another player waits in the queue.        *)
C12_Witness ==
    /\ last.op = "enter" /\ last.resp = "already_in_match"
    /\ queue # << >>
    /\ \E uid \in Players :
         uid \notin Range(queue) /\ is_user_in_active_match(matches, uid)

(* The seat of uid in his roster of m, counted from 0 as draft_round is;  *)
(* team 1 is looked at first.                                             *)
SeatOf(m, uid) ==
    IF uid \in Range(m.team1) THEN IndexOf(m.team1, uid) - 1
    ELSE IndexOf(m.team2, uid) - 1

(* The champions recorded for the roster that uid picks for. *)
TakenInTeam(m, uid) ==
    LET team == IF uid \in Range(m.team1) THEN m.team1 ELSE m.team2
    IN { m.picks[p] : p \in Range(team) \cap DOMAIN m.picks }

(* C13: a pick on an unknown match, on a match not in draft, by a player  *)
(* in neither roster, by a player whose seat is not the current round,    *)
(* of a champion outside the active pool or of a champion recorded in the *)
(* caller's team is rejected, and a rejected pick changes nothing: picks, *)
(* draft_round and status of every match stay as they were.               *)
C13_RejectedPickChangesNothing ==
    [][ /\ (last'.op = "pick" /\ last'.resp \in Failures) =>
             /\ matches' = matches
             /\ users' = users /\ champ_stats' = champ_stats
             /\ bets' = bets /\ queue' = queue
        /\ \A mid \in Addressed, uid \in Pickers, c \in PickInputs :
             (last'.op = "pick" /\ draft_pick(mid, uid, c)) =>
               ( last'.resp \in Failures <=>
                   \/ mid \notin DOMAIN matches
                   \/ matches[mid].status # "draft"
                   \/ uid \notin Roster(matches, mid)
                   \/ SeatOf(matches[mid], uid) # matches[mid].draft_round
                   \/ c \notin active_champions
                   \/ c \in TakenInTeam(matches[mid], uid) )
      ]_vars

(* A pick has just been refused as out of turn on a match in draft that   *)
(* already holds a pick.                                                  *)
C13_Witness ==
    /\ last.op = "pick" /\ last.resp = "not_your_turn"
    /\ \E mid \in DOMAIN matches :
         /\ last.m = mid
         /\ matches[mid].status = "draft"
         /\ matches[mid].picks # << >>

(* Both seats of round r of row m hold a pick. *)
RoundPicked(m, r) ==
    /\ GetPick(m.picks, m.team1[r + 1]) # NoChamp
    /\ GetPick(m.picks, m.team2[r + 1]) # NoChamp

(* On every match in draft: when the two players of the current round    *)
(* pick one after the other and both picks are accepted, the row reached  *)
(* is the same for both orders, and its round is the next one.            *)
C14_OrderFree ==
    \A mid \in DOMAIN matches :
        LET m == matches[mid]
            r == m.draft_round
        IN (m.status = "draft" /\ r < 3) =>
             \A c1 \in active_champions, c2 \in active_champions :
                 LET u1 == m.team1[r + 1]
                     u2 == m.team2[r + 1]
                     a1 == pick_applied(m, u1, c1, active_champions)
                     a12 == pick_applied(a1.m, u2, c2, active_champions)
                     b2 == pick_applied(m, u2, c2, active_champions)
                     b21 == pick_applied(b2.m, u1, c1, active_champions)
                 IN ( /\ a1.resp = "ok" /\ a12.resp = "ok"
                      /\ b2.resp = "ok" /\ b21.resp = "ok" )
                    => /\ a12.m = b21.m
                       /\ a12.m.draft_round = r + 1
                       /\ a1.m.draft_round = r /\ b2.m.draft_round = r

TableBonus(streak) ==
    (IF streak >= 3 THEN 1 ELSE 0) + (IF streak >= 6 THEN 2 ELSE 0)
    + (IF streak >= 9 THEN 4 ELSE 0)

RECURSIVE TableBonusSum(_, _)
TableBonusSum(us, seats) ==
    IF seats = << >> THEN 0
    ELSE TableBonus(us[Head(seats)].current_streak) + TableBonusSum(us, Tail(seats))

(* The rosters of row n by outcome. *)
WinnersOf(n) == IF n.winner_team = 1 THEN n.team1 ELSE n.team2
LosersOf(n) == IF n.winner_team = 1 THEN n.team2 ELSE n.team1

(* C15: at a settlement the total bonus is the sum, over the losers, of   *)
(* every table bonus whose threshold the loser's streak before the        *)
(* settlement has reached; each winner's score grows by points_win plus   *)
(* that whole total (once per seat he holds), each loser's by             *)
(* points_loss, and nobody else's score changes.                          *)
C15_FullBonusToEachWinner ==
    [][ \A mid \in MatchIds :
          Settled(mid) =>
            LET n == matches'[mid]
                total == TableBonusSum(users, LosersOf(n))
            IN /\ \A p \in Players :
                    users'[p].score = users[p].score
                        + Count(WinnersOf(n), p) * (points_win + total)
                        + Count(LosersOf(n), p) * points_loss
               /\ \A p \in Range(WinnersOf(n)) \ Range(LosersOf(n)) :
                    n.result_deltas.users[p].score_delta = points_win + total
      ]_vars

(* A match has been settled by report against a loser who was on a streak *)
(* of six or more, and the winners were paid more than points_win.        *)
C15_Witness ==
    /\ last.op = "report" /\ last.resp = "ok"
    /\ \E mid \in DOMAIN matches :
         LET n == matches[mid]
         IN /\ last.m = mid
            /\ n.status = "finished"
            /\ \E l \in Range(LosersOf(n)) : n.result_deltas.users[l].streak_old >= 6
            /\ \E l \in Range(LosersOf(n)) : n.result_deltas.users[l].streak_old = 0
            /\ \A w \in Range(WinnersOf(n)) :
                 n.result_deltas.users[w].score_delta >= points_win + 3

(* The loser seats of row n held by a player on a streak of 3 or more    *)
(* in the player table us.                                                *)
StreakedLosers(us, n) ==
    Cardinality({ i \in DOMAIN LosersOf(n) : us[LosersOf(n)[i]].current_streak >= 3 })

(* The winner and loser updates of the settlement of match mid in the     *)
(* step just taken, per seat: a player gets the winner update once per    *)
(* winner seat he holds and the loser update once per loser seat.         *)
SeatUpdates(mid) ==
    LET n == matches'[mid]
        broke == StreakedLosers(users, n)
    IN \A p \in Players :
         LET cw == Count(WinnersOf(n), p)
             cl == Count(LosersOf(n), p)
             u == users[p]
             v == users'[p]
         IN /\ v.wins = u.wins + cw
            /\ v.losses = u.losses + cl
            /\ v.played = u.played + cw + cl
            /\ v.current_streak = IF cl > 0 THEN 0 ELSE u.current_streak + cw
            /\ v.max_streak = IF cw > 0 THEN Max(u.max_streak, u.current_streak + cw)
                               ELSE u.max_streak
            /\ v.streaks_broken = u.streaks_broken + broke * cw
            /\ (cw = 0 /\ cl > 0) => v.score = u.score + cl * points_loss
            /\ (cw = 0 /\ cl = 0) => v.score = u.score

BetOn(mid, p, team) ==
    IF \E b \in bets : b.match_id = mid /\ b.user_id = p /\ b.team = team
    THEN 1 ELSE 0

(* C17: a settlement adds exactly 1 to correct_bets of every player with  *)
(* a bet on the winning side of the match, in a roster or not, and leaves *)
(* correct_bets of everybody else, and all stats of a bettor on the       *)
(* losing side who is in no roster, alone; a revert of the match takes    *)
(* the increment back, at once or later, and an override of a finished    *)
(* match moves it from the bettors on the old winner to those on the new. *)
C17_CorrectBets ==
    [][ \A mid \in MatchIds :
          /\ Settled(mid) =>
               LET w == matches'[mid].winner_team
                   back == revert_snapshot(DB', mid).users
               IN \A p \in Players :
                    /\ users'[p].correct_bets = users[p].correct_bets + BetOn(mid, p, w)
                    /\ back[p].correct_bets = users[p].correct_bets
                    /\ (p \notin Roster(matches, mid) /\ BetOn(mid, p, w) = 0)
                         => users'[p] = users[p]
          /\ (mid \in DOMAIN matches /\ Reverted(mid)) =>
               \A p \in Players :
                    users'[p].correct_bets
                      = users[p].correct_bets - BetOn(mid, p, matches[mid].winner_team)
          /\ ( /\ Served("override", mid) /\ last'.resp = "ok"
               /\ matches[mid].status = "finished" ) =>
               \A p \in Players :
                    users'[p].correct_bets
                      = users[p].correct_bets - BetOn(mid, p, matches[mid].winner_team)
                        + BetOn(mid, p, matches'[mid].winner_team)
      ]_vars

(* A match with a bet on each side has been settled by report for team 2: *)
(* player 7, in no roster, has his correct bet counted, and player 1,     *)
(* whose bet was on team 1, has none.                                     *)
C17_Witness ==
    /\ last.op = "report" /\ last.resp = "ok"
    /\ \E mid \in DOMAIN matches :
         /\ last.m = mid
         /\ matches[mid].status = "finished"
         /\ matches[mid].winner_team = 2
         /\ 7 \notin Roster(matches, mid)
         /\ BetOn(mid, 7, 2) = 1 /\ BetOn(mid, 1, 1) = 1
         /\ users[7].correct_bets = 1 /\ users[1].correct_bets = 0
         /\ matches[mid].result_deltas.users[7].correct_bets_delta = 1

(* C18: the committed rows never show a settlement that reached some of  *)
(* the players only, or players of a match that is not finished: a step   *)
(* changes committed player stats only if it takes a match into or out of *)
(* finished, and the step that finishes a match applies the settlement of *)
(* all six seats and stores the snapshot with it.                         *)
C18_SettlementAllOrNothing ==
    [][ /\ users' # users =>
             \E mid \in DOMAIN matches :
                 (matches[mid].status = "finished") # (matches'[mid].status = "finished")
        /\ \A mid \in DOMAIN matches :
             (Proper(mid) /\ Settled(mid)) =>
               /\ TotalPlayed(users') = TotalPlayed(users) + 6
               /\ matches'[mid].result_deltas # NoDeltas
      ]_vars

(* C19: whatever the interleaving of concurrent enter calls, no ticket   *)
(* is consumed by two matches: the rosters of the matches formed from the *)
(* queue are pairwise disjoint, and six players each.                     *)
C19_QueueFormationAtomic ==
    \A i \in DOMAIN matches : \A j \in DOMAIN matches :
        /\ Cardinality(Range(matches[i].team1) \cup Range(matches[i].team2)) = 6
        /\ i # j =>
             (Range(matches[i].team1) \cup Range(matches[i].team2))
             \cap (Range(matches[j].team1) \cup Range(matches[j].team2)) = {}

(* C20: a pick call that succeeds while other picks on the same match    *)
(* are in flight loses no pick: every pick recorded before its commit is  *)
(* still recorded after it, its own pick is recorded, and when both       *)
(* players of round r then have a pick, draft_round is r + 1.             *)
C20_ConcurrentPicksKept ==
    [][ \A key \in PickKeys :
          pick_commit(key) =>
            LET mid == sessions[key].mid
                m == matches[mid]
                n == matches'[mid]
                r == m.draft_round
            IN /\ \A p \in Players :
                    GetPick(m.picks, p) # NoChamp => GetPick(n.picks, p) = GetPick(m.picks, p)
               /\ GetPick(n.picks, key[2]) # NoChamp
               /\ (m.status = "draft" /\ r < 3 /\ RoundPicked(n, r)) => n.draft_round = r + 1
      ]_vars

(* C21: with one match on a fresh database, whatever the interleaving of *)
(* reports and cancels, once no request is in flight the outcome is one a *)
(* serial order gives: the match is finished and its settlement has been  *)
(* applied once (six games played in all), or the match is not finished   *)
(* and no settlement is in the stats (no game played).                    *)
C21_ResultsSerialized ==
    \A mid \in DOMAIN matches :
        sessions = << >> =>
            IF matches[mid].status = "finished"
            THEN TotalPlayed(users) = 6
            ELSE TotalPlayed(users) = 0

(* C22: a match enters in_progress only from draft, in a step that takes *)
(* draft_round to 3 and sets started_at and bet_deadline; a match in      *)
(* in_progress has draft_round 3, a pick for each of its players and a    *)
(* bet_deadline, and a match in draft has no bet_deadline.                *)
C22_StateShape ==
    \A mid \in DOMAIN matches :
        LET m == matches[mid]
        IN /\ m.status = "in_progress" =>
                /\ m.draft_round = 3
                /\ \A p \in Range(m.team1) \cup Range(m.team2) : GetPick(m.picks, p) # NoChamp
                /\ m.bet_deadline
           /\ m.status = "draft" => ~m.bet_deadline

C22_InProgressOnlyFromDraft ==
    /\ []C22_StateShape
    /\ [][ \A mid \in DOMAIN matches :
              (/\ Proper(mid)
               /\ matches'[mid].status = "in_progress"
               /\ matches[mid].status # "in_progress") =>
                  /\ matches[mid].status = "draft"
                  /\ matches[mid].draft_round < 3
                  /\ matches'[mid].draft_round = 3
                  /\ matches'[mid].started_at
                  /\ matches'[mid].bet_deadline
          ]_vars

(* C23: in every state, no two players of the same team of a match have  *)
(* the same recorded champion.                                            *)
TeamUnique(picks, team) ==
    \A i \in DOMAIN team : \A j \in DOMAIN team :
        (team[i] # team[j] /\ GetPick(picks, team[i]) # NoChamp) =>
            GetPick(picks, team[i]) # GetPick(picks, team[j])

C23_ChampionUniqueInTeam ==
    \A mid \in DOMAIN matches :
        Proper(mid) =>
            /\ TeamUnique(matches[mid].picks, matches[mid].team1)
            /\ TeamUnique(matches[mid].picks, matches[mid].team2)

(* C24: an auto-fill call on a match in draft advances draft_round by    *)
(* exactly one, gives a champion only to seats of the current round that  *)
(* have no pick and changes no recorded pick, and starts the match when   *)
(* the round reaches 3; on a match that is not in draft it changes        *)
(* nothing.                                                               *)
C24_AutoFillAdvancesOneRound ==
    [][ \A mid \in DOMAIN matches :
          draft_auto_current(mid) =>
            LET m == matches[mid]
                n == matches'[mid]
                r == m.draft_round
            IN IF m.status = "draft"
               THEN /\ n.draft_round = r + 1
                    /\ \A p \in DOMAIN m.picks : GetPick(n.picks, p) = GetPick(m.picks, p)
                    /\ (DOMAIN n.picks) \ (DOMAIN m.picks) \subseteq {m.team1[r + 1], m.team2[r + 1]}
                    /\ n.status = IF r + 1 = 3 THEN "in_progress" ELSE "draft"
               ELSE /\ matches' = matches
                    /\ UNCHANGED <<users, queue, bets, champ_stats, active_champions>>
      ]_vars

(* C25: a canceled match stays canceled under every operation, and a     *)
(* finished match leaves finished only in an admin cancel or an admin     *)
(* override.                                                              *)
C25_CanceledIsTerminal ==
    [][ \A mid \in DOMAIN matches :
          Proper(mid) =>
            /\ matches[mid].status = "canceled" => matches'[mid].status = "canceled"
            /\ (matches[mid].status = "finished" /\ matches'[mid].status # "finished") =>
                 (last'.op \in {"cancel", "override"} /\ last'.m = mid)
      ]_vars

(* C26: in every state between requests a match has a non-empty          *)
(* settlement snapshot exactly when its status is finished, and exactly   *)
(* when its winner is 1 or 2; a match in draft, in_progress or canceled   *)
(* has an empty snapshot and no winner.                                   *)
C26_SnapshotIffFinished ==
    \A mid \in DOMAIN matches :
        LET m == matches[mid]
        IN /\ (m.result_deltas # NoDeltas) <=> (m.status = "finished")
           /\ (m.winner_team \in {1, 2}) <=> (m.status = "finished")
           /\ m.status # "finished" => m.winner_team = None

(* A match that was finished by agreeing reports and then cancelled. *)
C26_Witness ==
    /\ last.op = "cancel" /\ last.resp = "ok"
    /\ \E mid \in DOMAIN matches :
         /\ last.m = mid
         /\ matches[mid].status = "canceled"
         /\ matches[mid].t1_report # None
         /\ matches[mid].t1_report = matches[mid].t2_report
         /\ matches[mid].result_deltas = NoDeltas
         /\ \E p \in Players : users[p].max_streak > 0

(* C27: a revert of a match changes, of a player who is not one of its   *)
(* participants, no stat other than correct_bets; his current_streak      *)
(* stays at its value before the revert.                                  *)
C27_RevertKeepsBettorStreak ==
    [][ \A mid \in DOMAIN matches :
          (Proper(mid) /\ Reverted(mid)) =>
            \A p \in Players \ Roster(matches, mid) :
                /\ users'[p].current_streak = users[p].current_streak
                /\ users'[p] = [ users[p] EXCEPT !.correct_bets = users'[p].correct_bets ]
      ]_vars

(* C28: recorded picks are write-once: once a player has a recorded pick  *)
(* in a match, no later pick or auto-fill call changes his champion.      *)
C28_PicksWriteOnce ==
    [][ \A mid \in DOMAIN matches : \A p \in Players :
          GetPick(matches[mid].picks, p) # NoChamp =>
              GetPick(matches'[mid].picks, p) = GetPick(matches[mid].picks, p)
      ]_vars

(* C29: in every state reached by settlements, reverts, overrides and    *)
(* cancels, every player has played = wins + losses, no counter and no    *)
(* current_streak below zero, and max_streak >= current_streak.           *)
C29_StatsWellFormed ==
    \A p \in Players :
        LET u == users[p]
        IN /\ u.played = u.wins + u.losses
           /\ u.wins >= 0 /\ u.losses >= 0 /\ u.played >= 0
           /\ u.correct_bets >= 0 /\ u.streaks_broken >= 0
           /\ u.current_streak >= 0
           /\ u.max_streak >= u.current_streak

(* The first of two settled matches has been reverted by a cancel while   *)
(* the settlement of the second stands.                                   *)
C29_Witness ==
    /\ last.op = "cancel" /\ last.resp = "ok" /\ last.m = 1
    /\ Len(matches) = 2
    /\ matches[1].status = "canceled" /\ matches[1].t1_report # None
    /\ matches[1].t1_report = matches[1].t2_report
    /\ matches[2].status = "finished"
    /\ \E p \in Players : users[p].max_streak > users[p].current_streak

====
